---- MODULE Spec2Model ----
(***************************************************************************)
(* License-key engine of the subscription manager (activateLicense and     *)
(* the license record), in its two versions: src/App.tsx and               *)
(* src/unnamed/part_000.                                                   *)
(*                                                                         *)
(* Time.  A timestamp is a whole number of days since 1970-01-01 (the code *)
(* counts milliseconds; the license logic only orders instants and reads   *)
(* their calendar date).  Local time is taken to be UTC without daylight   *)
(* saving, so setDate(getDate() + n) moves a timestamp by n whole days.    *)
(*                                                                         *)
(* React.  `data` is the committed state of useState; `view` is the value  *)
(* of `data` captured by the closures of the last render.  A handler reads *)
(* `view`; a functional update setData(prev => ...) is applied to `data`.  *)
(* React commits and re-renders before the next event is handled, so each  *)
(* handler action below ends with view' = data', except in SpecConc.      *)
(*                                                                         *)
(* Specifications.  Spec follows the license engine under activation calls *)
(* and the passing of time, with the memoised isLicenseValid and the       *)
(* document kept in localStorage.  SpecApp adds a restart of the           *)
(* application, the other operations and the backup restore.  SpecConc     *)
(* separates a call of activateLicense from the render that makes its      *)
(* update visible.  SpecRetry records the keys that were refused.  SpecPix *)
(* applies generatePix to inputs drawn at the start.                       *)
(***************************************************************************)
EXTENDS Integers, Sequences, FiniteSets, TLC

VARIABLES impl, now, data, view, last, successes,
          isLicenseValid, storage, rejected, pix, crcCall, ui

vars == <<impl, now, data, view, last, successes,
          isLicenseValid, storage, rejected, pix, crcCall, ui>>

(***************************************************************************)
(* Bounds of the model.                                                    *)
(***************************************************************************)
\* successful activations explored (the length the ledger may reach)
MaxUsedKeys == 3

(***************************************************************************)
(* Calendar: the Date methods the code calls (proleptic Gregorian).        *)
(***************************************************************************)
DaysFromCivil(y, m, d) ==
  LET yy  == IF m <= 2 THEN y - 1 ELSE y
      era == yy \div 400
      yoe == yy - era * 400
      mp  == (m + 9) % 12
      doy == (153 * mp + 2) \div 5 + d - 1
      doe == yoe * 365 + yoe \div 4 - yoe \div 100 + doy
  IN  era * 146097 + doe - 719468

CivilFromDays(z) ==
  LET zz  == z + 719468
      era == zz \div 146097
      doe == zz - era * 146097
      yoe == (doe - doe \div 1460 + doe \div 36524 - doe \div 146096) \div 365
      doy == doe - (365 * yoe + yoe \div 4 - yoe \div 100)
      mp  == (5 * doy + 2) \div 153
      d   == doy - (153 * mp + 2) \div 5 + 1
      m   == IF mp < 10 THEN mp + 3 ELSE mp - 9
      y   == yoe + era * 400
  IN  [year |-> IF m <= 2 THEN y + 1 ELSE y, month |-> m, day |-> d]

getFullYear(t) == CivilFromDays(t).year
\* getMonth() is zero-based
getMonth(t) == CivilFromDays(t).month - 1
getDate(t) == CivilFromDays(t).day

\* d.setDate(d.getDate() + n): n calendar days later
AddDays(t, n) ==
  LET c == CivilFromDays(t)
  IN  DaysFromCivil(c.year, c.month, c.day + n)

\* d.setFullYear(d.getFullYear() + n): same month and day; a
\* 29 February that the target year lacks becomes 1 March
AddYears(t, n) ==
  LET c == CivilFromDays(t)
  IN  DaysFromCivil(c.year + n, c.month, c.day)

\* Date.prototype.toISOString: the UTC calendar fields the string spells out
toISOString(t) ==
  LET c == CivilFromDays(t)
  IN  [year |-> c.year, month |-> c.month, day |-> c.day]

\* new Date(isoString)
ParseDate(s) == DaysFromCivil(s.year, s.month, s.day)

\* String(n).padStart(2, '0') for 0 <= n <= 99
Digit(n) ==
  CASE n = 0 -> "0" [] n = 1 -> "1" [] n = 2 -> "2" [] n = 3 -> "3" [] n = 4 -> "4"
    [] n = 5 -> "5" [] n = 6 -> "6" [] n = 7 -> "7" [] n = 8 -> "8" [] n = 9 -> "9"

String(n) == IF n < 10 THEN Digit(n) ELSE Digit(n \div 10) \o Digit((n % 10))

PadStart2(s) == IF Len(s) < 2 THEN "0" \o s ELSE s

\* `${day}/${month}`
DateKey(today) ==
  PadStart2(String(getDate(today))) \o "/" \o PadStart2(String(getMonth(today) + 1))

(***************************************************************************)
(* Key catalogs (./constants): configuration read by lookup and membership *)
(* only.  The model injects a small catalog: two plain daily keys, one     *)
(* annual key, two lifetime keys, and one key, "DAL", that is the daily    *)
(* key of 05/04 and is also listed in the annual and lifetime catalogs.    *)
(***************************************************************************)
DAILY_KEYS == ("01/03" :> "D1") @@ ("21/03" :> "D2") @@ ("05/04" :> "DAL")

ANNUAL_KEYS == {"A1", "DAL"}

LIFETIME_KEYS == {"L1", "L2", "DAL"}

\* what a user may type: every catalog key, the empty string and a garbage key
Keys == {"", "X", "D1", "D2", "DAL", "A1", "L1", "L2"}

DailyKeyStrings == {DAILY_KEYS[dk] : dk \in DOMAIN DAILY_KEYS}

\* the instant at which INITIAL_DATA is built: 2025-03-01T00:00
Created == DaysFromCivil(2025, 3, 1)

\* the instants at which events are handled, in days after Created: 01/03,
\* 11/03 (no daily key configured), 21/03 and 05/04 of 2025, and 01/03/2026
EventDays == {0, 10, 20, 35, 365}

INITIAL_DATA ==
  [clients |-> <<>>,
   plans |-> <<>>,
   accountsPayable |-> <<>>,
   messageTemplates |-> <<[id |-> 0, name |-> "default"]>>,
   settings |-> [companyName |-> "Pocket Plan Manager", language |-> "pt"],
   license |-> [isActive |-> FALSE,
                expirationDate |-> toISOString(Created),
                usedKeys |-> <<>>]]

(***************************************************************************)
(* activateLicense                                                         *)
(***************************************************************************)
\* mutant: the key of any configured date is taken for today's key
IsTodaysDailyKey_AnyDate(inputKey, today) ==
  \E dk \in DOMAIN DAILY_KEYS : inputKey = DAILY_KEYS[dk]

\* inputKey === DAILY_KEYS[dateKey]; a missing entry is undefined and equals
\* no string
IsTodaysDailyKey(inputKey, today) ==
  /\ DateKey(today) \in DOMAIN DAILY_KEYS
  /\ inputKey = DAILY_KEYS[DateKey(today)]

\* mutant: the year of the ledger entry is not compared
UsedThisYear_AnyYear(usedKeys, inputKey, currentYear) ==
  \E i \in 1..Len(usedKeys) : usedKeys[i].key = inputKey

\* usedKeys?.some(k => k.key === inputKey && k.year === currentYear)
UsedThisYear(usedKeys, inputKey, currentYear) ==
  \E i \in 1..Len(usedKeys) :
    usedKeys[i].key = inputKey /\ usedKeys[i].year = currentYear

\* mutant: only the last ledger entry is compared
UsedEver_LastOnly(usedKeys, inputKey) ==
  Len(usedKeys) > 0 /\ usedKeys[Len(usedKeys)].key = inputKey

\* usedKeys?.some(k => k.key === inputKey)
UsedEver(usedKeys, inputKey) ==
  \E i \in 1..Len(usedKeys) : usedKeys[i].key = inputKey

\* mutant: the stored expiration is never the base
BaseDate_Today(license, today) == today

\* mutant: the comparison with today is turned around
BaseDate_Inverted(license, today) ==
  LET currentExp == ParseDate(license.expirationDate)
  IN  IF license.isActive /\ currentExp < today THEN currentExp ELSE today

\* mutant: an active record is always extended from its stored expiration
BaseDate_Stored(license, today) ==
  IF license.isActive THEN ParseDate(license.expirationDate) ELSE today

\* data.license.isActive && currentExp > today ? currentExp : today
BaseDate(license, today) ==
  LET currentExp == ParseDate(license.expirationDate)
  IN  IF license.isActive /\ currentExp > today THEN currentExp ELSE today

\* newExp.setDate(newExp.getDate() + 30)
DailyExpiration(license, today) == AddDays(BaseDate(license, today), 30)

\* mutant: 365 days from now, whatever the stored expiration
AnnualExpiration_FromToday(license, today) == AddDays(today, 365)

\* newExp.setDate(newExp.getDate() + 365)
AnnualExpiration(license, today) == AddDays(BaseDate(license, today), 365)

\* mutant: the lifetime extension starts from the base date as the others do
LifetimeExpiration_FromBase(license, today) == AddYears(BaseDate(license, today), 100)

\* newExp = new Date(today); newExp.setFullYear(newExp.getFullYear() + 100)
LifetimeExpiration(license, today) == AddYears(today, 100)

\* mutant: the catalogs are tried before the daily key
KeyClass_CatalogsFirst(inputKey, today) ==
  IF inputKey \in LIFETIME_KEYS THEN "lifetime"
  ELSE IF inputKey \in ANNUAL_KEYS THEN "annual"
  ELSE IF IsTodaysDailyKey(inputKey, today) THEN "daily"
  ELSE "none"

\* the class whose branch of activateLicense handles the key
KeyClass(inputKey, today) ==
  IF IsTodaysDailyKey(inputKey, today) THEN "daily"
  ELSE IF inputKey \in ANNUAL_KEYS THEN "annual"
  ELSE IF inputKey \in LIFETIME_KEYS THEN "lifetime"
  ELSE "none"

\* mutant: every class is compared with the entries of the current year only
AlreadyUsed_PerYear(class, usedKeys, inputKey, currentYear) ==
  UsedThisYear(usedKeys, inputKey, currentYear)

\* the duplicate test of the branch
AlreadyUsed(class, usedKeys, inputKey, currentYear) ==
  IF class = "daily" THEN UsedThisYear(usedKeys, inputKey, currentYear)
  ELSE UsedEver(usedKeys, inputKey)

\* the new expiration of the branch
NewExpiration(class, license, today) ==
  CASE class = "daily"    -> DailyExpiration(license, today)
    [] class = "annual"   -> AnnualExpiration(license, today)
    [] class = "lifetime" -> LifetimeExpiration(license, today)

\* mutant: isActive is carried over from the previous record
SetLicense_KeepActive(prev, newExp, usedKeys) ==
  [prev EXCEPT !.license = [isActive |-> prev.license.isActive,
                            expirationDate |-> toISOString(newExp),
                            usedKeys |-> usedKeys]]

\* mutant: the ledger is replaced by the new entry alone
SetLicense_OnlyNewKey(prev, newExp, usedKeys) ==
  [prev EXCEPT !.license = [isActive |-> TRUE,
                            expirationDate |-> toISOString(newExp),
                            usedKeys |-> <<usedKeys[Len(usedKeys)]>>]]

\* setData(prev => ({ ...prev, license: { isActive: true, expirationDate, usedKeys } }))
SetLicense(prev, newExp, usedKeys) ==
  [prev EXCEPT !.license = [isActive |-> TRUE,
                            expirationDate |-> toISOString(newExp),
                            usedKeys |-> usedKeys]]

\* mutant: a rejected key still marks the record active
Rejected_Activates(prev, result) ==
  [result |-> result, data |-> [prev EXCEPT !.license.isActive = TRUE]]

\* return 'invalid' / return 'duplicate': no setData is issued
Rejected(prev, result) == [result |-> result, data |-> prev]

\* mutant: the entry is appended to the ledger of the snapshot
activateLicenseApp_SnapshotLedger(snap, prev, inputKey, today) ==
  LET currentYear == getFullYear(today)
      class == KeyClass(inputKey, today)
  IN  IF class = "none" THEN Rejected(prev, "invalid")
      ELSE IF AlreadyUsed(class, snap.license.usedKeys, inputKey, currentYear)
      THEN Rejected(prev, "duplicate")
      ELSE [result |-> "success",
            data |-> SetLicense(prev, NewExpiration(class, snap.license, today),
                        Append(snap.license.usedKeys,
                               [key |-> inputKey, year |-> currentYear]))]

\* App.tsx: the checks and the new expiration read the rendered snapshot
\* `snap`; the ledger entry is appended to the ledger of `prev`
activateLicenseApp(snap, prev, inputKey, today) ==
  LET currentYear == getFullYear(today)
      class == KeyClass(inputKey, today)
  IN  IF class = "none" THEN Rejected(prev, "invalid")
      ELSE IF AlreadyUsed(class, snap.license.usedKeys, inputKey, currentYear)
      THEN Rejected(prev, "duplicate")
      ELSE [result |-> "success",
            data |-> SetLicense(prev, NewExpiration(class, snap.license, today),
                        Append(prev.license.usedKeys,
                               [key |-> inputKey, year |-> currentYear]))]

\* mutant: the same key is accepted again whatever the ledger holds
activateLicensePartAt_NoLedgerTest(snap, prev, inputKey, today, nowRead) ==
  LET currentYear == getFullYear(today)
      class == KeyClass(inputKey, today)
  IN  IF class = "none" THEN Rejected(prev, "invalid")
      ELSE [result |-> "success",
            data |-> SetLicense(prev, NewExpiration(class, snap.license, nowRead),
                        Append(snap.license.usedKeys,
                               [key |-> inputKey, year |-> currentYear]))]

\* unnamed/part_000: the key tests and the ledger year use `today`, the
\* first reading of the clock; the base date and the lifetime expiration
\* use `now`, a second reading taken after the ledger test (nowRead);
\* newUsedKeys is built from the snapshot
activateLicensePartAt(snap, prev, inputKey, today, nowRead) ==
  LET currentYear == getFullYear(today)
      class == KeyClass(inputKey, today)
  IN  IF class = "none" THEN Rejected(prev, "invalid")
      ELSE IF AlreadyUsed(class, snap.license.usedKeys, inputKey, currentYear)
      THEN Rejected(prev, "duplicate")
      ELSE [result |-> "success",
            data |-> SetLicense(prev, NewExpiration(class, snap.license, nowRead),
                        Append(snap.license.usedKeys,
                               [key |-> inputKey, year |-> currentYear]))]

\* unnamed/part_000 when both readings of the clock give the same instant
activateLicensePart(snap, prev, inputKey, today) ==
  activateLicensePartAt(snap, prev, inputKey, today, today)

\* mutant: every call reads the committed record, not the one of its render
activateLicense_Latest(version, snap, prev, inputKey, today) ==
  IF version = "App.tsx" THEN activateLicenseApp(prev, prev, inputKey, today)
  ELSE activateLicensePart(prev, prev, inputKey, today)

activateLicense(version, snap, prev, inputKey, today) ==
  IF version = "App.tsx" THEN activateLicenseApp(snap, prev, inputKey, today)
  ELSE activateLicensePart(snap, prev, inputKey, today)

(***************************************************************************)
(* AppProvider: the memoised validity, the stored document, the other      *)
(* operations                                                              *)
(***************************************************************************)
\* items stored over all collections while the other operations are followed
MaxItems == 1

\* mutant: a license expiring at this very instant still counts as valid
ComputeLicenseValid_Inclusive(license, t) ==
  license.isActive /\ ParseDate(license.expirationDate) >= t

\* the body of the useMemo: if (!isActive) return false; return exp > now
ComputeLicenseValid(license, t) ==
  IF ~license.isActive THEN FALSE ELSE ParseDate(license.expirationDate) > t

\* useMemo(..., [data.license]): the cached value is kept unless the render
\* sees another license object (`fresh`: the update built a new one)
Memo(cached, oldLicense, newLicense, fresh, t) ==
  IF fresh THEN ComputeLicenseValid(newLicense, t) ELSE cached

\* JSON.stringify: an object becomes the list of its members, in the order
\* of its properties
StringifyLicense(license) ==
  << [name |-> "isActive", value |-> license.isActive],
     [name |-> "expirationDate", value |-> license.expirationDate],
     [name |-> "usedKeys",
      value |-> [i \in 1..Len(license.usedKeys) |->
                   << [name |-> "key", value |-> license.usedKeys[i].key],
                      [name |-> "year", value |-> license.usedKeys[i].year] >>]] >>

JSONstringify(d) ==
  << [name |-> "clients", value |-> d.clients],
     [name |-> "plans", value |-> d.plans],
     [name |-> "accountsPayable", value |-> d.accountsPayable],
     [name |-> "settings",
      value |-> << [name |-> "companyName", value |-> d.settings.companyName],
                   [name |-> "language", value |-> d.settings.language] >>],
     [name |-> "license", value |-> StringifyLicense(d.license)],
     [name |-> "messageTemplates", value |-> d.messageTemplates] >>

\* the value of the member `name` of a parsed object
Member(doc, name) ==
  doc[CHOOSE i \in 1..Len(doc) : doc[i].name = name].value

ParseLicense(doc) ==
  [isActive |-> Member(doc, "isActive"),
   expirationDate |-> Member(doc, "expirationDate"),
   usedKeys |-> [i \in 1..Len(Member(doc, "usedKeys")) |->
                   [key |-> Member(Member(doc, "usedKeys")[i], "key"),
                    year |-> Member(Member(doc, "usedKeys")[i], "year")]]]

\* JSON.parse
JSONparse(doc) ==
  [clients |-> Member(doc, "clients"),
   plans |-> Member(doc, "plans"),
   accountsPayable |-> Member(doc, "accountsPayable"),
   messageTemplates |-> Member(doc, "messageTemplates"),
   settings |-> [companyName |-> Member(Member(doc, "settings"), "companyName"),
                 language |-> Member(Member(doc, "settings"), "language")],
   license |-> ParseLicense(Member(doc, "license"))]

\* useEffect(() => localStorage.setItem('iptv_manager_data',
\* JSON.stringify(data)), [data])
Persist(before, after) == JSONstringify(after)

\* mutant: the saved document is ignored
LoadSaved_Initial(saved) == INITIAL_DATA

\* the initialiser of useState: the saved document, parsed
LoadSaved(saved) == JSONparse(saved)

\* [...p.xs, x]
AddItem(xs, x) == Append(xs, x)

\* p.xs.map(c => c.id === x.id ? x : c)
UpdateItem(xs, x) == [i \in 1..Len(xs) |-> IF xs[i].id = x.id THEN x ELSE xs[i]]

\* p.xs.filter(c => c.id !== id)
DeleteItem(xs, id) == SelectSeq(xs, LAMBDA c : c.id # id)

Collections == {"clients", "plans", "accountsPayable"}

\* add / update / delete of a client, a plan or an account:
\* setData(p => ({ ...p, [collection]: ... }))
ApplyAdd(prev, coll, x) == [prev EXCEPT ![coll] = AddItem(prev[coll], x)]

ApplyUpdate(prev, coll, x) == [prev EXCEPT ![coll] = UpdateItem(prev[coll], x)]

ApplyDelete(prev, coll, id) == [prev EXCEPT ![coll] = DeleteItem(prev[coll], id)]

\* saveSettings: setData(p => ({ ...p, settings: st }))
saveSettings(prev, st) == [prev EXCEPT !.settings = st]

\* addMessageTemplate
addMessageTemplate(prev, t) ==
  [prev EXCEPT !.messageTemplates = AddItem(prev.messageTemplates, t)]

\* the files offered to handleRestore: a backup of a fresh installation
\* (inactive license), one of an installation with a client and a license
\* that ran out in 2024, and a document that is no backup
BackupFiles ==
  { JSONstringify(INITIAL_DATA),
    JSONstringify([INITIAL_DATA EXCEPT
      !.clients = <<[id |-> 1, name |-> "a"]>>,
      !.license = [isActive |-> TRUE,
                   expirationDate |-> [year |-> 2024, month |-> 12, day |-> 31],
                   usedKeys |-> <<[key |-> "L1", year |-> 2024]>>]]),
    << [name |-> "clients", value |-> <<>>] >> }

HasMember(doc, name) == \E i \in 1..Len(doc) : doc[i].name = name

\* json.clients && json.plans
IsBackup(file) == HasMember(file, "clients") /\ HasMember(file, "plans")

\* handleRestore (unnamed/part_000): json = JSON.parse(text);
\* if (json.clients && json.plans) setData(json)
Restored(prev, file) ==
  IF IsBackup(file)
  THEN JSONparse(file)
  ELSE prev

ItemCount(d) ==
  Len(d.clients) + Len(d.plans) + Len(d.accountsPayable) + Len(d.messageTemplates) - 1

(***************************************************************************)
(* generatePix and crc16ccitt.  A string is the sequence of its UTF-16     *)
(* code units; an argument left out is <<>>, one given is <<string>>.      *)
(***************************************************************************)
DigitChars == <<"0", "1", "2", "3", "4", "5", "6", "7", "8", "9">>

UpperChars == <<"A", "B", "C", "D", "E", "F", "G", "H", "I", "J", "K", "L", "M",
                "N", "O", "P", "Q", "R", "S", "T", "U", "V", "W", "X", "Y", "Z">>

LowerChars == <<"a", "b", "c", "d", "e", "f", "g", "h", "i", "j", "k", "l", "m",
                "n", "o", "p", "q", "r", "s", "t", "u", "v", "w", "x", "y", "z">>

\* the code unit of a character of a string literal of the source
CharCode(c) ==
  IF \E i \in 1..10 : DigitChars[i] = c
  THEN 47 + (CHOOSE i \in 1..10 : DigitChars[i] = c)
  ELSE IF \E i \in 1..26 : UpperChars[i] = c
  THEN 64 + (CHOOSE i \in 1..26 : UpperChars[i] = c)
  ELSE IF \E i \in 1..26 : LowerChars[i] = c
  THEN 96 + (CHOOSE i \in 1..26 : LowerChars[i] = c)
  ELSE CASE c = " " -> 32
         [] c = "*" -> 42
         [] c = "." -> 46
         [] c = "@" -> 64

\* a string literal, written character by character
Lit(cs) == [i \in 1..Len(cs) |-> CharCode(cs[i])]

RECURSIVE Flatten(_)
\* the concatenation of a sequence of strings
Flatten(ss) == IF ss = <<>> THEN <<>> ELSE Head(ss) \o Flatten(Tail(ss))

RECURSIVE NumberToString(_, _)
\* n.toString(radix) of a non-negative integer, in lower case
NumberToString(n, radix) ==
  LET d == n % radix
      c == IF d < 10 THEN 48 + d ELSE 87 + d
  IN  IF n < radix THEN <<c>> ELSE Append(NumberToString(n \div radix, radix), c)

\* mutant: a one-digit number is not padded
padStart2_NoPad(s) == s

\* s.padStart(2, '0')
padStart2(s) == IF Len(s) < 2 THEN [i \in 1..(2 - Len(s)) |-> 48] \o s ELSE s

\* s.substring(0, n)
substring0(s, n) == SubSeq(s, 1, IF Len(s) < n THEN Len(s) ELSE n)

\* toUpperCase of one code unit: the letters of ASCII and of Latin-1; the
\* sharp s becomes SS, y with diaeresis leaves Latin-1
UpperOf(c) ==
  IF c \in 97..122 THEN <<c - 32>>
  ELSE IF c \in (224..254) \ {247} THEN <<c - 32>>
  ELSE IF c = 223 THEN <<83, 83>>
  ELSE IF c = 255 THEN <<376>>
  ELSE <<c>>

toUpperCase(s) == Flatten([i \in 1..Len(s) |-> UpperOf(s[i])])

\* the canonical decomposition of the accented capitals of Latin-1: the
\* base letter and the combining mark
Decomposition ==
  (192 :> <<65, 768>>) @@ (193 :> <<65, 769>>) @@ (194 :> <<65, 770>>) @@
  (195 :> <<65, 771>>) @@ (196 :> <<65, 776>>) @@ (197 :> <<65, 778>>) @@
  (199 :> <<67, 807>>) @@
  (200 :> <<69, 768>>) @@ (201 :> <<69, 769>>) @@ (202 :> <<69, 770>>) @@
  (203 :> <<69, 776>>) @@
  (204 :> <<73, 768>>) @@ (205 :> <<73, 769>>) @@ (206 :> <<73, 770>>) @@
  (207 :> <<73, 776>>) @@
  (209 :> <<78, 771>>) @@
  (210 :> <<79, 768>>) @@ (211 :> <<79, 769>>) @@ (212 :> <<79, 770>>) @@
  (213 :> <<79, 771>>) @@ (214 :> <<79, 776>>) @@
  (217 :> <<85, 768>>) @@ (218 :> <<85, 769>>) @@ (219 :> <<85, 770>>) @@
  (220 :> <<85, 776>>) @@
  (221 :> <<89, 769>>)

\* s.normalize("NFD"), on upper-cased text
normalizeNFD(s) ==
  Flatten([i \in 1..Len(s) |->
             IF s[i] \in DOMAIN Decomposition THEN Decomposition[s[i]] ELSE <<s[i]>>])

\* s.replace(/[\u0300-\u036f]/g, "")
stripMarks(s) == SelectSeq(s, LAMBDA c : c \notin 768..879)

\* s.substring(0, n).toUpperCase().normalize("NFD").replace(marks, "")
MerchantText(s, n) == stripMarks(normalizeNFD(toUpperCase(substring0(s, n))))

\* mutant: the cents are written without a leading zero
toFixed2_NoPad(cents) ==
  NumberToString(cents \div 100, 10) \o Lit(<<".">>) \o NumberToString(cents % 100, 10)

\* amount.toFixed(2) of an amount of `cents` whole cents
toFixed2(cents) ==
  NumberToString(cents \div 100, 10) \o Lit(<<".">>)
    \o padStart2(NumberToString(cents % 100, 10))

\* mutant: the length is left out
formatField_NoLength(id, value) == id \o value

\* `${id}${value.length.toString().padStart(2, '0')}${value}`
formatField(id, value) == id \o padStart2(NumberToString(Len(value), 10)) \o value

RECURSIVE Xor16(_, _, _)
\* a ^ b on the low n bits
Xor16(a, b, n) ==
  IF n = 0 THEN 0
  ELSE ((a + b) % 2) + 2 * Xor16(a \div 2, b \div 2, n - 1)

\* mutant: the character is not moved to the high byte
XorShifted_Low(crc, code) ==
  [hi |-> crc.hi, lo |-> Xor16(crc.lo, code % 65536, 16)]

\* crc ^= code << 8, on a 32-bit value kept as its two 16-bit halves
XorShifted(crc, code) ==
  [hi |-> Xor16(crc.hi, code \div 256, 16),
   lo |-> Xor16(crc.lo, (code * 256) % 65536, 16)]

\* if (crc & 0x8000) crc = (crc << 1) ^ 0x1021; else crc = crc << 1
ShiftStep(crc) ==
  LET shifted == [hi |-> (crc.hi * 2 + crc.lo \div 32768) % 65536,
                  lo |-> (crc.lo * 2) % 65536]
  IN  IF (crc.lo \div 32768) % 2 = 1
      THEN [shifted EXCEPT !.lo = Xor16(shifted.lo, 4129, 16)]
      ELSE shifted

RECURSIVE ShiftSteps(_, _)
\* for (let i = 0; i < 8; i++); the value of a step is bound before the
\* next one is taken
ShiftSteps(crc, n) ==
  IF n = 0 THEN crc
  ELSE CHOOSE r \in {ShiftSteps(next, n - 1) : next \in {ShiftStep(crc)}} : TRUE

RECURSIVE CrcLoop(_, _, _, _)
\* for (let c = 0; c < str.length; c++), over the characters from..to of
\* str: the first half of the range, then the second from the value the
\* first has left
CrcLoop(crc, str, from, to) ==
  IF from > to THEN crc
  ELSE IF from = to THEN ShiftSteps(XorShifted(crc, str[from]), 8)
  ELSE CHOOSE r \in {CrcLoop(half, str, ((from + to) \div 2) + 1, to) :
                       half \in {CrcLoop(crc, str, from, (from + to) \div 2)}} : TRUE

\* mutant: the hexadecimal text is not padded
Hex4_NoPad(crc) == toUpperCase(NumberToString(crc.lo, 16))

\* (crc & 0xFFFF).toString(16).toUpperCase(), padded to four characters
Hex4(crc) ==
  LET hex == toUpperCase(NumberToString(crc.lo, 16))
  IN  IF Len(hex) < 4 THEN [i \in 1..(4 - Len(hex)) |-> 48] \o hex ELSE hex

crc16ccitt(str) ==
  CHOOSE r \in {Hex4(CrcLoop([hi |-> 0, lo |-> 65535], s, 1, Len(s))) : s \in {str}} : TRUE

\* the default of a parameter
Default(arg, value) == IF arg = <<>> THEN value ELSE arg[1]

\* mutant: the checksum is taken over the payload without the 6304 tag
Sealed_PayloadOnly(crcPayload) ==
  crcPayload \o crc16ccitt(SubSeq(crcPayload, 1, Len(crcPayload) - 4))

\* const crc = crc16ccitt(crcPayload); return `${crcPayload}${crc}`
Sealed(crcPayload) == crcPayload \o crc16ccitt(crcPayload)

\* city = 'BRASIL' is the default of App.tsx; every caller passes a city
generatePix(key, name, city, cents, txId) ==
  LET payload == Flatten(<<
        formatField(Lit(<<"0", "0">>), Lit(<<"0", "1">>)),
        formatField(Lit(<<"2", "6">>),
          Lit(<<"0", "0", "1", "4", "b", "r", ".", "g", "o", "v", ".",
                "b", "c", "b", ".", "p", "i", "x", "0", "1">>)
            \o padStart2(NumberToString(Len(key), 10)) \o key),
        formatField(Lit(<<"5", "2">>), Lit(<<"0", "0", "0", "0">>)),
        formatField(Lit(<<"5", "3">>), Lit(<<"9", "8", "6">>)),
        formatField(Lit(<<"5", "4">>), toFixed2(cents)),
        formatField(Lit(<<"5", "8">>), Lit(<<"B", "R">>)),
        formatField(Lit(<<"5", "9">>), MerchantText(name, 25)),
        formatField(Lit(<<"6", "0">>),
          MerchantText(Default(city, Lit(<<"B", "R", "A", "S", "I", "L">>)), 15)),
        formatField(Lit(<<"6", "2">>),
          formatField(Lit(<<"0", "5">>), Default(txId, Lit(<<"*", "*", "*">>)))) >>)
  IN  Sealed(payload \o Lit(<<"6", "3", "0", "4">>))

\* the Pix keys, names, cities, amounts and transaction ids tried
PixKeys ==
  { Lit(<<"a", "@", "b", ".", "c", "o">>),
    Lit(<<"1", "2", "3", "4", "5", "6", "7", "8", "9", "0", "1">>) }

PixNames ==
  { Lit(<<"J", "o", "s", "e">>),
    Lit(<<"J", "o", "s">>) \o <<233>>,
    Lit(<<"J", "o", "s", "e">>) \o <<769>>,
    Lit(<<"a", "b", "c", "d", "e", "f", "g", "h", "i", "j", "k", "l", "m", "n",
          "o", "p", "q", "r", "s", "t", "u", "v", "w", "x", "y", "z", "a">>),
    Lit(<<"S", "t", "r", "a">>) \o <<223>>
      \o Lit(<<"e", " ", "I", "P", "T", "V", " ", "S", "e", "r", "v", "i", "c",
               "o", "s", " ", "L", "t", "d", "a">>),
    <<65, 769, 69, 769, 73, 769>>
      \o Lit(<<"b", "c", "d", "e", "f", "g", "h", "i", "j", "k", "l", "m", "n",
               "o", "p", "q", "r", "s", "t", "u", "v", "w">>) }

PixCities ==
  { <<>>,
    << Lit(<<"S">>) \o <<227>> \o Lit(<<"o", " ", "P", "a", "u", "l", "o">>) >>,
    << Lit(<<"R", "i", "o", " ", "d", "e", " ", "J", "a", "n", "e", "i", "r",
             "o", " ", "R", "J">>) >> }

PixCents == {0, 5, 500, 123450}

PixTxIds == { <<>>, << Lit(<<"T", "X", "0", "1">>) >> }

(***************************************************************************)
(* State machine                                                           *)
(***************************************************************************)
NoCall == [op |-> "none", key |-> "", today |-> Created, result |-> "none",
           pre |-> INITIAL_DATA]

NoPix == [key |-> <<>>, name |-> <<>>, city |-> <<>>, cents |-> 0, txId |-> <<>>,
          payload |-> <<>>]

\* no string has been given to crc16ccitt
NoCrc == [str |-> <<>>, hex |-> <<>>]

\* no page of the application is open
NoUi == [page |-> "none"]

Init ==
  /\ impl \in {"App.tsx", "part_000"}
  /\ now = Created
  /\ data = INITIAL_DATA
  /\ view = INITIAL_DATA
  /\ last = NoCall
  /\ successes = [k \in Keys |-> 0]
  /\ isLicenseValid = ComputeLicenseValid(INITIAL_DATA.license, Created)
  /\ storage = Persist(INITIAL_DATA, INITIAL_DATA)
  /\ rejected = {}
  /\ pix = NoPix
  /\ crcCall = NoCrc
  /\ ui = NoUi

\* the activation button: one call of activateLicense, then commit and render
Activate(inputKey) ==
  LET r == activateLicense(impl, view, data, inputKey, now)
  IN  /\ r.result = "success" => Len(data.license.usedKeys) < MaxUsedKeys
      /\ data' = r.data
      /\ view' = r.data
      /\ last' = [op |-> "activate", key |-> inputKey, today |-> now,
                  result |-> r.result, pre |-> data]
      /\ UNCHANGED <<impl, now>>

\* the count of the successful activations of each key
Counted(inputKey) ==
  successes' = IF last'.result = "success"
               THEN [successes EXCEPT ![inputKey] = @ + 1]
               ELSE successes

\* the wall clock moves on between two events
Tick(d) ==
  /\ Created + d > now
  /\ now' = Created + d
  /\ last' = [NoCall EXCEPT !.op = "tick", !.today = now, !.pre = data]
  /\ UNCHANGED <<impl, data, view, successes>>

\* what the render after an event leaves: the memo and the stored document
\* (`set`: the event called setData, `fresh`: with another license object)
Rendered(set, fresh) ==
  /\ isLicenseValid' = Memo(isLicenseValid, data.license, data'.license, fresh, now)
  /\ storage' = IF set THEN Persist(data, data') ELSE storage

\* the activation button with the render that follows it; a refused key
\* issues no update
Activation(inputKey) ==
  /\ Activate(inputKey)
  /\ Counted(inputKey)
  /\ Rendered(last'.result = "success", last'.result = "success")
  /\ UNCHANGED <<rejected, pix, crcCall, ui>>

Clock(d) ==
  /\ Tick(d)
  /\ UNCHANGED <<isLicenseValid, storage, rejected, pix, crcCall, ui>>

Next ==
  \/ \E inputKey \in Keys : Activation(inputKey)
  \/ \E d \in EventDays : Clock(d)

Spec == Init /\ [][Next]_vars

(***************************************************************************)
(* The provider around the engine                                          *)
(***************************************************************************)
\* the keys typed while the other operations are followed
AppKeys == {"D1", "A1"}

\* the day at which the application is looked at again: a year on, the
\* instant at which an annual key entered at once runs out
AppDays == {365}

Items == [id : {1}, name : {"a", "b"}]

SettingsValues ==
  { INITIAL_DATA.settings, [companyName |-> "Acme", language |-> "en"] }

\* an operation of the provider other than activateLicense, with the render
\* that follows it: the updater is applied to the committed data, the license
\* object is carried over by the spread
Operation(name, next) ==
  /\ data' = next
  /\ view' = next
  /\ last' = [NoCall EXCEPT !.op = name, !.today = now, !.pre = data]
  /\ Rendered(TRUE, FALSE)
  /\ UNCHANGED <<impl, now, successes, rejected, pix, crcCall, ui>>

addClient(x) ==
  /\ ItemCount(data) < MaxItems
  /\ Operation("addClient", ApplyAdd(data, "clients", x))

updateClient(x) == Operation("updateClient", ApplyUpdate(data, "clients", x))

deleteClient(id) == Operation("deleteClient", ApplyDelete(data, "clients", id))

addPlan(x) ==
  /\ ItemCount(data) < MaxItems
  /\ Operation("addPlan", ApplyAdd(data, "plans", x))

updatePlan(x) == Operation("updatePlan", ApplyUpdate(data, "plans", x))

deletePlan(id) == Operation("deletePlan", ApplyDelete(data, "plans", id))

addAccount(x) ==
  /\ ItemCount(data) < MaxItems
  /\ Operation("addAccount", ApplyAdd(data, "accountsPayable", x))

updateAccount(x) ==
  Operation("updateAccount", ApplyUpdate(data, "accountsPayable", x))

deleteAccount(id) ==
  Operation("deleteAccount", ApplyDelete(data, "accountsPayable", id))

SaveSettings(st) == Operation("saveSettings", saveSettings(data, st))

AddMessageTemplate(x) ==
  /\ ItemCount(data) < MaxItems
  /\ Operation("addMessageTemplate", addMessageTemplate(data, x))

\* handleRestore of unnamed/part_000 (App.tsx has no restore): refused
\* unless the license is shown as valid
Restore(file) ==
  /\ impl = "part_000"
  /\ isLicenseValid
  /\ data' = Restored(data, file)
  /\ view' = data'
  /\ last' = [NoCall EXCEPT !.op = "restore", !.today = now, !.pre = data,
                             !.result = IF IsBackup(file) THEN "success" ELSE "invalid"]
  /\ Rendered(IsBackup(file), IsBackup(file))
  /\ UNCHANGED <<impl, now, successes, rejected, pix, crcCall, ui>>

\* the application is closed and opened again: the state is initialised
\* from the stored document, the memo is computed and the effect runs
Restart ==
  /\ data' = LoadSaved(storage)
  /\ view' = data'
  /\ last' = [NoCall EXCEPT !.op = "restart", !.today = now, !.pre = data]
  /\ isLicenseValid' = ComputeLicenseValid(data'.license, now)
  /\ storage' = Persist(data, data')
  /\ UNCHANGED <<impl, now, successes, rejected, pix, crcCall, ui>>

AppActivation ==
  \E inputKey \in AppKeys :
    /\ Activate(inputKey)
    /\ Rendered(last'.result = "success", last'.result = "success")
    /\ UNCHANGED <<successes, rejected, pix, crcCall, ui>>

AppClock == \E d \in AppDays : Clock(d)

AppOperation ==
  \/ \E x \in Items : addClient(x)
  \/ \E x \in Items : updateClient(x)
  \/ \E x \in Items : deleteClient(x.id)
  \/ \E x \in Items : addPlan(x)
  \/ \E x \in Items : updatePlan(x)
  \/ \E x \in Items : deletePlan(x.id)
  \/ \E x \in Items : addAccount(x)
  \/ \E x \in Items : updateAccount(x)
  \/ \E x \in Items : deleteAccount(x.id)
  \/ \E st \in SettingsValues : SaveSettings(st)
  \/ \E x \in Items : AddMessageTemplate(x)

NextApp ==
  \/ AppActivation
  \/ AppClock
  \/ AppOperation
  \/ \E file \in BackupFiles : Restore(file)
  \/ Restart

SpecApp == Init /\ [][NextApp]_vars

(***************************************************************************)
(* Calls issued before the render of an earlier one                        *)
(***************************************************************************)
ConcKeys == {"D1", "A1", "L1"}

ConcDays == {20, 365}

\* one call of activateLicense from the closure of the last render: its
\* update is queued and applied to the committed data; nothing is rendered
Issue(inputKey) ==
  /\ activateLicense(impl, view, data, inputKey, now).result = "success"
       => Len(data.license.usedKeys) < MaxUsedKeys
  /\ data' = activateLicense(impl, view, data, inputKey, now).data
  /\ last' = [op |-> "activate", key |-> inputKey, today |-> now,
              result |-> activateLicense(impl, view, data, inputKey, now).result,
              pre |-> data]
  /\ UNCHANGED <<impl, now, view, isLicenseValid, storage,
                 rejected, pix, crcCall, ui>>

Call(inputKey) ==
  /\ Issue(inputKey)
  /\ UNCHANGED successes

\* a call of the activateLicense of App.tsx, its outcome counted
CountedCall(inputKey) ==
  /\ impl = "App.tsx"
  /\ Issue(inputKey)
  /\ Counted(inputKey)

\* React renders: the closures see the committed data, the memo and the
\* effect run
Render ==
  /\ view # data
  /\ view' = data
  /\ last' = [NoCall EXCEPT !.op = "render", !.today = now, !.pre = data]
  /\ isLicenseValid' = Memo(isLicenseValid, view.license, data.license,
                            view.license # data.license, now)
  /\ storage' = Persist(view, data)
  /\ UNCHANGED <<impl, now, data, successes, rejected, pix, crcCall, ui>>

\* a render takes no time on the scale of the clock: time passes between
\* rendered states
ConcClock ==
  /\ view = data
  /\ \E d \in ConcDays : Clock(d)

NextConc ==
  \/ \E inputKey \in ConcKeys : Call(inputKey)
  \/ Render
  \/ ConcClock

SpecConc == Init /\ [][NextConc]_vars

NextConcApp ==
  \/ \E inputKey \in ConcKeys : CountedCall(inputKey)
  \/ Render
  \/ ConcClock

SpecConcApp == Init /\ [][NextConcApp]_vars

(***************************************************************************)
(* Keys entered again after a refusal.  `rejected` holds the keys refused  *)
(* since the license record was last replaced by a restore.                *)
(***************************************************************************)
RetryKeys == {"X", "D1", "A1", "DAL"}

RetryDays == {10, 35, 365}

Retry(inputKey) ==
  /\ Activate(inputKey)
  /\ Rendered(last'.result = "success", last'.result = "success")
  /\ rejected' = IF last'.result = "success" THEN rejected
                 ELSE rejected \cup {inputKey}
  /\ UNCHANGED <<successes, pix, crcCall, ui>>

RetryClock == \E d \in RetryDays : Clock(d)

RetryRestore ==
  \E file \in BackupFiles :
    /\ impl = "part_000"
    /\ isLicenseValid
    /\ data' = Restored(data, file)
    /\ view' = data'
    /\ last' = [NoCall EXCEPT !.op = "restore", !.today = now, !.pre = data,
                 !.result = IF IsBackup(file) THEN "success" ELSE "invalid"]
    /\ Rendered(IsBackup(file), IsBackup(file))
    /\ rejected' = IF IsBackup(file) THEN {} ELSE rejected
    /\ UNCHANGED <<impl, now, successes, pix, crcCall, ui>>

NextRetry ==
  \/ \E inputKey \in RetryKeys : Retry(inputKey)
  \/ RetryClock
  \/ RetryRestore

SpecRetry == Init /\ [][NextRetry]_vars

(***************************************************************************)
(* generatePix applied to the inputs drawn at the start                    *)
(***************************************************************************)
InitPix ==
  /\ impl \in {"App.tsx", "part_000"}
  /\ now = Created
  /\ data = INITIAL_DATA
  /\ view = INITIAL_DATA
  /\ last = NoCall
  /\ successes = [k \in Keys |-> 0]
  /\ isLicenseValid = ComputeLicenseValid(INITIAL_DATA.license, Created)
  /\ storage = Persist(INITIAL_DATA, INITIAL_DATA)
  /\ rejected = {}
  /\ pix \in [key : PixKeys, name : PixNames, city : PixCities, cents : PixCents,
               txId : PixTxIds, payload : {<<>>}]
  /\ pix.city = <<>> => impl = "App.tsx"
  /\ crcCall = NoCrc
  /\ ui = NoUi

\* the charge dialog computes the code
GeneratePix ==
  /\ pix.payload = <<>>
  /\ pix' = [pix EXCEPT !.payload =
               generatePix(pix.key, pix.name, pix.city, pix.cents, pix.txId)]
  /\ UNCHANGED <<impl, now, data, view, last, successes, isLicenseValid,
                 storage, rejected, crcCall, ui>>

NextPix == GeneratePix

SpecPix == InitPix /\ [][NextPix]_vars

(***************************************************************************)
(* crc16ccitt applied to strings drawn at the start                        *)
(***************************************************************************)
\* the longest string given to crc16ccitt
MaxCrcLen == 4

\* code units: NUL, the digit 1, and two bytes with the high bit set
CrcAlphabet == {0, 49, 128, 255}

CrcStrings == UNION {[1..n -> CrcAlphabet] : n \in 0..MaxCrcLen}

InitCrc ==
  /\ impl \in {"App.tsx", "part_000"}
  /\ now = Created
  /\ data = INITIAL_DATA
  /\ view = INITIAL_DATA
  /\ last = NoCall
  /\ successes = [k \in Keys |-> 0]
  /\ isLicenseValid = ComputeLicenseValid(INITIAL_DATA.license, Created)
  /\ storage = Persist(INITIAL_DATA, INITIAL_DATA)
  /\ rejected = {}
  /\ pix = NoPix
  /\ crcCall \in [str : CrcStrings, hex : {<<>>}]
  /\ ui = NoUi

\* one call of crc16ccitt
ComputeCrc ==
  /\ crcCall.hex = <<>>
  /\ crcCall' = [crcCall EXCEPT !.hex = crc16ccitt(crcCall.str)]
  /\ UNCHANGED <<impl, now, data, view, last, successes, isLicenseValid,
                 storage, rejected, pix, ui>>

NextCrc == ComputeCrc

SpecCrc == InitCrc /\ [][NextCrc]_vars

(***************************************************************************)
(* Serialized calls of activateLicense, each seeing the record the         *)
(* previous one left.  unnamed/part_000 reads the clock twice in one call  *)
(* and the clock may move on between the two readings; App.tsx reads it    *)
(* once.                                                                   *)
(***************************************************************************)
TwinKeys == {"X", "D1", "A1", "L1"}

TwinDays == {20, 365}

\* how far the clock moves between `today` and `now` of one call
TwinGaps == {0, 1}

TwinCall(inputKey, gap) ==
  LET r == IF impl = "App.tsx"
           THEN activateLicenseApp(view, data, inputKey, now)
           ELSE activateLicensePartAt(view, data, inputKey, now, now + gap)
  IN  /\ gap > 0 => /\ impl = "part_000"
                    /\ now - Created \in {0} \cup TwinDays
      /\ r.result = "success" => Len(data.license.usedKeys) < MaxUsedKeys
      /\ data' = r.data
      /\ view' = r.data
      /\ now' = now + gap
      /\ last' = [op |-> "activate", key |-> inputKey, today |-> now,
                  result |-> r.result, pre |-> data]
      /\ isLicenseValid' = Memo(isLicenseValid, data.license, data'.license,
                                r.result = "success", now')
      /\ storage' = IF r.result = "success" THEN Persist(data, data') ELSE storage
      /\ UNCHANGED <<impl, successes, rejected, pix, crcCall, ui>>

TwinClock ==
  \E d \in TwinDays :
    /\ Tick(d)
    /\ UNCHANGED <<isLicenseValid, storage, rejected, pix, crcCall, ui>>

NextTwin ==
  \/ \E inputKey \in TwinKeys, gap \in TwinGaps : TwinCall(inputKey, gap)
  \/ TwinClock

SpecTwin == Init /\ [][NextTwin]_vars

(***************************************************************************)
(* ClientList of unnamed/part_000: the list of clients and the form that   *)
(* adds or edits one.  A client is its id and its name (the fields the     *)
(* form requires stand or fall together); an editingClient without id has  *)
(* id 0, one without the required fields has the name "".                  *)
(***************************************************************************)
\* the number of clients the free version allows
FreeLimit == 5

\* the largest id Date.now() hands out
MaxClientId == 6

ClientNames == {"a", "b"}

\* editingClient after handleAddNew and after "save and new"
BlankClient == [id |-> 0, name |-> ""]

\* the clients stored when the page opens: ids 1..n, n up to the free limit
StoredClients(n) == [i \in 1..n |-> [id |-> i, name |-> "a"]]

\* a license that is in force when the page opens
ActiveLicense ==
  [isActive |-> TRUE, expirationDate |-> toISOString(AddDays(Created, 30)),
   usedKeys |-> <<[key |-> "D1", year |-> getFullYear(Created)]>>]

\* Date.now().toString(): an id later than every id handed out so far
FreshId(clients) ==
  IF clients = <<>> THEN 1 ELSE 1 + clients[Len(clients)].id

InitClients ==
  /\ impl = "part_000"
  /\ now = Created
  /\ \E n \in 0..FreeLimit, lic \in {INITIAL_DATA.license, ActiveLicense} :
       /\ data = [INITIAL_DATA EXCEPT !.clients = StoredClients(n), !.license = lic]
       /\ isLicenseValid = ComputeLicenseValid(lic, Created)
  /\ view = data
  /\ last = NoCall
  /\ successes = [k \in Keys |-> 0]
  /\ storage = Persist(data, data)
  /\ rejected = {}
  /\ pix = NoPix
  /\ crcCall = NoCrc
  /\ ui = [page |-> "clients", showForm |-> FALSE, isEditing |-> FALSE,
           editingClient |-> BlankClient]

\* an event of the page: what it leaves in the application data and in the
\* state of the component
ClientEvent(name, next, nextUi) ==
  /\ ui.page = "clients"
  /\ data' = next
  /\ view' = next
  /\ ui' = nextUi
  /\ last' = [NoCall EXCEPT !.op = name]
  /\ isLicenseValid' = Memo(isLicenseValid, data.license, next.license, FALSE, now)
  /\ storage' = IF next # data THEN Persist(data, next) ELSE storage
  /\ UNCHANGED <<impl, now, successes, rejected, pix, crcCall>>

\* mutant: the form opens whatever the number of clients
handleAddNew_NoLimit(valid, d, u) ==
  [u EXCEPT !.editingClient = BlankClient, !.isEditing = FALSE, !.showForm = TRUE]

\* handleAddNew: if (!isLicenseValid && data.clients.length >= 5) return;
\* else a blank form is shown
handleAddNew(valid, d, u) ==
  IF ~valid /\ Len(d.clients) >= FreeLimit THEN u
  ELSE [u EXCEPT !.editingClient = BlankClient, !.isEditing = FALSE, !.showForm = TRUE]

\* the "+" button of the list
HandleAddNew ==
  /\ ~ui.showForm
  /\ ClientEvent("handleAddNew", data, handleAddNew(isLicenseValid, view, ui))

\* onChange of the form's fields
TypeFields(name) ==
  /\ ui.showForm
  /\ ui.editingClient.name # name
  /\ ClientEvent("type", data, [ui EXCEPT !.editingClient.name = name])

\* the client handleSave builds from the form
ClientData(u, d) ==
  [id |-> IF u.editingClient.id # 0 THEN u.editingClient.id ELSE FreshId(d.clients),
   name |-> u.editingClient.name]

\* handleSave: the application data it leaves
SavedData(u, d) ==
  IF u.editingClient.name = "" THEN d
  ELSE IF u.isEditing THEN ApplyUpdate(d, "clients", ClientData(u, d))
  ELSE ApplyAdd(d, "clients", ClientData(u, d))

\* handleSave: the component state it leaves
SavedUi(u, createAnother) ==
  IF u.editingClient.name = "" THEN u
  ELSE IF u.isEditing THEN [u EXCEPT !.showForm = FALSE]
  ELSE IF createAnother THEN [u EXCEPT !.editingClient = BlankClient]
  ELSE [u EXCEPT !.showForm = FALSE]

\* "Salvar" and, on the form of a new client, "Salvar e Novo"
HandleSave(createAnother) ==
  /\ ui.showForm
  /\ createAnother => ~ui.isEditing
  /\ ClientData(ui, data).id <= MaxClientId
  /\ ClientEvent(IF createAnother THEN "handleSaveAndNew" ELSE "handleSave",
                 SavedData(ui, data), SavedUi(ui, createAnother))

\* the pencil of a row of the list
HandleEdit(i) ==
  /\ ~ui.showForm
  /\ i \in 1..Len(data.clients)
  /\ ClientEvent("handleEdit", data,
                 [ui EXCEPT !.editingClient = data.clients[i], !.isEditing = TRUE,
                            !.showForm = TRUE])

\* the bin of a row of the list
DeleteClientRow(i) ==
  /\ ~ui.showForm
  /\ i \in 1..Len(data.clients)
  /\ ClientEvent("deleteClient", ApplyDelete(data, "clients", data.clients[i].id), ui)

\* "Cancelar"
CancelForm ==
  /\ ui.showForm
  /\ ClientEvent("cancel", data, [ui EXCEPT !.showForm = FALSE])

NextClients ==
  \/ HandleAddNew
  \/ \E name \in ClientNames : TypeFields(name)
  \/ \E createAnother \in BOOLEAN : HandleSave(createAnother)
  \/ \E i \in 1..MaxClientId : HandleEdit(i)
  \/ \E i \in 1..MaxClientId : DeleteClientRow(i)
  \/ CancelForm

SpecClients == InitClients /\ [][NextClients]_vars

(***************************************************************************)
(* ClientExpirationsList of App.tsx: payments and renewals of one client.  *)
(* Amounts are in cents; a dueDate is the day it denotes.                  *)
(***************************************************************************)
\* the largest debt, in cents, the renewals and payments are followed to
MaxOwed == 9000

\* the longest paymentHistory followed
MaxHistory == 2

\* the latest dueDate followed, in days after the creation
MaxDueDays == 120

PlanPrice == 3000

\* data.plans: the client's plan, or no plan at all
PlanLists == {<<>>, <<[id |-> 1, name |-> "p", price |-> PlanPrice]>>}

\* what the input of the modal may hold: less than a month, more than one
PartialAmounts == {1000, 5000}

RenewDays == {30, 60, 90}

\* the clients the page may open with: amountOwed >= 0
PayingClients ==
  [id : {1}, name : {"a"}, planId : {1}, dueDate : {Created},
   paymentStatus : {"pending", "paid"}, amountOwed : {0, PlanPrice},
   paymentHistory : {<<>>}]

InitPayments ==
  /\ impl = "App.tsx"
  /\ now = Created
  /\ \E c \in PayingClients, ps \in PlanLists :
       data = [INITIAL_DATA EXCEPT !.clients = <<c>>, !.plans = ps]
  /\ view = data
  /\ last = NoCall
  /\ successes = [k \in Keys |-> 0]
  /\ isLicenseValid = ComputeLicenseValid(data.license, Created)
  /\ storage = Persist(data, data)
  /\ rejected = {}
  /\ pix = NoPix
  /\ crcCall = NoCrc
  /\ ui = [page |-> "expirations", paymentModal |-> <<>>]

\* an event of the page; `client` is the client the handler was given
PaymentEvent(name, client, next, nextUi) ==
  /\ ui.page = "expirations"
  /\ data' = next
  /\ view' = next
  /\ ui' = nextUi
  /\ last' = [NoCall EXCEPT !.op = name, !.today = now,
                            !.pre = [INITIAL_DATA EXCEPT !.clients = <<client>>]]
  /\ isLicenseValid' = Memo(isLicenseValid, data.license, next.license, FALSE, now)
  /\ storage' = IF next # data THEN Persist(data, next) ELSE storage
  /\ UNCHANGED <<impl, now, successes, rejected, pix, crcCall>>

\* data.plans.find(p => p.id === client.planId)?.price || 0
PriceOf(plans, planId) ==
  IF \E i \in 1..Len(plans) : plans[i].id = planId
  THEN plans[CHOOSE i \in 1..Len(plans) :
               /\ plans[i].id = planId
               /\ \A j \in 1..(i - 1) : plans[j].id # planId].price
  ELSE 0

\* handleRenew: currentDebt + addedValue, the debt counted only while the
\* client is pending
RenewTotal(client, plans, days) ==
  LET addedValue == PriceOf(plans, client.planId) * (days \div 30)
      currentDebt == IF client.paymentStatus = "pending" THEN client.amountOwed ELSE 0
  IN  currentDebt + addedValue

\* handleRenew: the client passed to updateClient
Renewed(client, plans, days, confirmed) ==
  LET newTotal == RenewTotal(client, plans, days)
  IN  IF confirmed
      THEN [client EXCEPT !.dueDate = AddDays(@, days), !.paymentStatus = "paid",
                          !.amountOwed = 0,
                          !.paymentHistory = Append(@, newTotal)]
      ELSE [client EXCEPT !.dueDate = AddDays(@, days), !.paymentStatus = "pending",
                          !.amountOwed = newTotal]

\* mutant: a total payment clears the debt and leaves the status as it was
PaidTotal_KeepStatus(client) ==
  [client EXCEPT !.amountOwed = 0, !.paymentHistory = Append(@, client.amountOwed)]

\* onConfirm('total'): {...paymentModal, paymentStatus: 'paid', amountOwed: 0}
PaidTotal(client) ==
  [client EXCEPT !.paymentStatus = "paid", !.amountOwed = 0,
                 !.paymentHistory = Append(@, client.amountOwed)]

\* onConfirm('partial', amount): amountOwed - amount, whatever the amount
PaidPartial(client, amount) ==
  [client EXCEPT !.amountOwed = @ - amount,
                 !.paymentHistory = Append(@, amount)]

\* the +30 / +60 / +90 buttons of a card, and the answer to confirm()
HandleRenew(i, days, confirmed) ==
  /\ ui.page = "expirations" /\ ui.paymentModal = <<>>
  /\ i \in 1..Len(data.clients)
  /\ LET c == Renewed(view.clients[i], view.plans, days, confirmed)
     IN  /\ c.amountOwed <= MaxOwed
         /\ c.dueDate <= Created + MaxDueDays
         /\ Len(c.paymentHistory) <= MaxHistory
         /\ PaymentEvent("handleRenew", view.clients[i],
                         ApplyUpdate(data, "clients", c), ui)

\* the status button of a card: setPaymentModal(client)
OpenPayment(i) ==
  /\ ui.page = "expirations" /\ ui.paymentModal = <<>>
  /\ i \in 1..Len(data.clients)
  /\ PaymentEvent("openPayment", view.clients[i], data,
                  [ui EXCEPT !.paymentModal = <<view.clients[i]>>])

\* "pay total" of the modal
ConfirmTotal ==
  /\ ui.page = "expirations" /\ ui.paymentModal # <<>>
  /\ Len(ui.paymentModal[1].paymentHistory) < MaxHistory
  /\ PaymentEvent("payTotal", ui.paymentModal[1],
                  ApplyUpdate(data, "clients", PaidTotal(ui.paymentModal[1])),
                  [ui EXCEPT !.paymentModal = <<>>])

\* "confirm partial" of the modal: if (Number(amount) > 0) onConfirm(...)
ConfirmPartial(amount) ==
  /\ ui.page = "expirations" /\ ui.paymentModal # <<>>
  /\ amount > 0
  /\ Len(ui.paymentModal[1].paymentHistory) < MaxHistory
  /\ ui.paymentModal[1].amountOwed - amount >= 0 - MaxOwed
  /\ PaymentEvent("payPartial", ui.paymentModal[1],
                  ApplyUpdate(data, "clients", PaidPartial(ui.paymentModal[1], amount)),
                  [ui EXCEPT !.paymentModal = <<>>])

\* "cancel" of the modal
ClosePayment ==
  /\ ui.page = "expirations" /\ ui.paymentModal # <<>>
  /\ PaymentEvent("closePayment", ui.paymentModal[1], data,
                  [ui EXCEPT !.paymentModal = <<>>])

NextPayments ==
  \/ \E days \in RenewDays, confirmed \in BOOLEAN : HandleRenew(1, days, confirmed)
  \/ OpenPayment(1)
  \/ ConfirmTotal
  \/ \E amount \in PartialAmounts : ConfirmPartial(amount)
  \/ ClosePayment

SpecPayments == InitPayments /\ [][NextPayments]_vars

TypeOK ==
  /\ impl \in {"App.tsx", "part_000"}
  /\ now \in Nat
  /\ last.result \in {"none", "success", "invalid", "duplicate"}
  /\ view = data

(***************************************************************************)
(* Properties.  `last` records the most recent event: for a call of        *)
(* activateLicense its key, the instant of the call, the outcome and the   *)
(* application data before the call.                                       *)
(***************************************************************************)
Called == last.op = "activate"

Succeeded == Called /\ last.result = "success"

Pre == last.pre.license

Post == data.license

\* the instant an expirationDate string denotes
ExpOf(license) == ParseDate(license.expirationDate)

\* the base date as the claims state it
ClaimedBase == IF Pre.isActive /\ ExpOf(Pre) > last.today THEN ExpOf(Pre) ELSE last.today

\* the key of the call is the one configured for the date of the call
LastIsDaily ==
  \E dk \in DOMAIN DAILY_KEYS : dk = DateKey(last.today) /\ DAILY_KEYS[dk] = last.key

InLedger(usedKeys, key, year) == [key |-> key, year |-> year] \in {usedKeys[i] : i \in 1..Len(usedKeys)}

KeysOf(usedKeys) == {usedKeys[i].key : i \in 1..Len(usedKeys)}

\* C1: a successful daily-key activation ends at base + 30 days, base being
\* the stored expirationDate if the record was active and that date was later
\* than now, and now otherwise.
C1_DailyExtendsBaseBy30 ==
  (Succeeded /\ LastIsDaily) => ExpOf(Post) = ClaimedBase + 30

\* C1, reached: an active record expiring in 10 days ends at now + 40 days
C1_Witness ==
  /\ Succeeded /\ LastIsDaily
  /\ Pre.isActive /\ ExpOf(Pre) = last.today + 10
  /\ ExpOf(Post) = last.today + 40

\* C1, second case: an active record expired 5 days ago ends at now + 30 days
C1_WitnessExpired ==
  /\ Succeeded /\ LastIsDaily
  /\ Pre.isActive /\ ExpOf(Pre) = last.today - 5
  /\ ExpOf(Post) = last.today + 30

\* C2: today's daily key is rejected as duplicate exactly when the ledger
\* already holds (key, current year); it is never invalid; a duplicate leaves
\* expirationDate as it was.
C2_DailyDuplicateIffUsedThisYear ==
  (Called /\ LastIsDaily) =>
    /\ last.result \in {"success", "duplicate"}
    /\ last.result = "duplicate" <=>
         InLedger(Pre.usedKeys, last.key, getFullYear(last.today))
    /\ last.result = "duplicate" => Post.expirationDate = Pre.expirationDate

\* C2, reached: the key succeeded in two different years and is now refused
\* a second time within the current year
C2_Witness ==
  /\ Called /\ LastIsDaily /\ last.result = "duplicate"
  /\ successes[last.key] = 2
  /\ \E i \in 1..Len(Pre.usedKeys) :
       Pre.usedKeys[i].key = last.key /\ Pre.usedKeys[i].year < getFullYear(last.today)
  /\ Post.expirationDate = Pre.expirationDate

\* annual and lifetime keys that are no date's daily key
SingleUseKeys == (ANNUAL_KEYS \cup LIFETIME_KEYS) \ DailyKeyStrings

\* C3: an annual or lifetime key succeeds at most once; once accepted, every
\* later call with it, in whatever year, returns duplicate.
C3_SingleUseKeySucceedsOnce ==
  /\ \A k \in SingleUseKeys : successes[k] <= 1
  /\ (Called /\ last.key \in SingleUseKeys) =>
       /\ last.result \in {"success", "duplicate"}
       /\ successes[last.key] = 1

\* C3, reached: a key accepted in an earlier year is refused as duplicate
C3_Witness ==
  /\ Called /\ last.key \in SingleUseKeys /\ last.result = "duplicate"
  /\ \E i \in 1..Len(Pre.usedKeys) :
       Pre.usedKeys[i].key = last.key /\ Pre.usedKeys[i].year < getFullYear(last.today)

\* C4 as stated: every successful activation leaves expirationDate greater
\* than or equal to its previous value.
C4_ExpirationNeverDecreases ==
  Succeeded => ExpOf(Post) >= ExpOf(Pre)

\* now + 100 years: the same month and day of the year 100 later
HundredYearsOn ==
  DaysFromCivil(getFullYear(last.today) + 100, getMonth(last.today) + 1, getDate(last.today))

LastIsLifetime ==
  ~LastIsDaily /\ last.key \notin ANNUAL_KEYS /\ last.key \in LIFETIME_KEYS

\* C4, amended: a daily or annual success leaves expirationDate strictly
\* later than before; a lifetime success leaves it at least as late unless
\* the stored date was later than now + 100 years.
C4_DecreasesOnlyByLifetimeAnchor ==
  Succeeded =>
    IF LastIsLifetime
    THEN ExpOf(Post) >= ExpOf(Pre) \/ ExpOf(Pre) > HundredYearsOn
    ELSE ExpOf(Post) > ExpOf(Pre)

\* C4, reached: a daily or annual key extends a record that a lifetime key
\* had already carried 100 years ahead
C4_Witness ==
  /\ Succeeded
  /\ LastIsDaily \/ last.key \in ANNUAL_KEYS
  /\ KeysOf(Pre.usedKeys) \cap LIFETIME_KEYS # {}
  /\ ExpOf(Post) > ExpOf(Pre)

\* C5: a successful lifetime activation ends at now + 100 years (same month
\* and day of the year 100 later), whatever the stored expirationDate.
C5_LifetimeAnchoredToNow ==
  (Succeeded /\ LastIsLifetime) =>
    Post.expirationDate = [year  |-> getFullYear(last.today) + 100,
                           month |-> getMonth(last.today) + 1,
                           day   |-> getDate(last.today)]

\* C5, reached: the stored expirationDate was in the future and is ignored
C5_Witness ==
  /\ Succeeded /\ LastIsLifetime
  /\ Pre.isActive /\ ExpOf(Pre) > last.today
  /\ Post.expirationDate.year = getFullYear(last.today) + 100

\* C6: a successful annual activation ends at base + 365 days, with the base
\* rule of the daily key.
C6_AnnualExtendsBaseBy365 ==
  (Succeeded /\ ~LastIsDaily /\ last.key \in ANNUAL_KEYS) =>
    ExpOf(Post) = ClaimedBase + 365

\* C6, reached: an active record with a future expirationDate is extended
\* from that date
C6_Witness ==
  /\ Succeeded /\ ~LastIsDaily /\ last.key \in ANNUAL_KEYS
  /\ Pre.isActive /\ ExpOf(Pre) > last.today
  /\ ExpOf(Post) = ExpOf(Pre) + 365

\* C7: the classes are tried in the order daily, annual, lifetime and only
\* the first that matches is applied: today's daily key follows the daily
\* rule (30 days, duplicate per year) even if it is in the annual or lifetime
\* catalog, and a key of both catalogs follows the annual rule.
C7_FirstMatchingClassWins ==
  Called =>
    /\ LastIsDaily =>
         /\ last.result = (IF InLedger(Pre.usedKeys, last.key, getFullYear(last.today))
                           THEN "duplicate" ELSE "success")
         /\ last.result = "success" => ExpOf(Post) = ClaimedBase + 30
    /\ (~LastIsDaily /\ last.key \in ANNUAL_KEYS) =>
         /\ last.result = (IF last.key \in KeysOf(Pre.usedKeys)
                           THEN "duplicate" ELSE "success")
         /\ last.result = "success" => ExpOf(Post) = ClaimedBase + 365

\* C7, reached: today's daily key, listed in the annual and lifetime
\* catalogs too, is accepted and extends the record by 30 days
C7_Witness ==
  /\ Succeeded /\ LastIsDaily
  /\ last.key \in ANNUAL_KEYS \cap LIFETIME_KEYS
  /\ ExpOf(Post) = ClaimedBase + 30

\* C7, second case: a key of both catalogs that is not today's daily key is
\* accepted as an annual key
C7_WitnessAnnual ==
  /\ Succeeded /\ ~LastIsDaily
  /\ last.key \in ANNUAL_KEYS \cap LIFETIME_KEYS
  /\ ExpOf(Post) = ClaimedBase + 365

\* C8: a key that is not today's daily key and is in neither catalog is
\* invalid.
C8_UnknownKeyIsInvalid ==
  (Called /\ ~LastIsDaily /\ last.key \notin ANNUAL_KEYS \cup LIFETIME_KEYS) =>
    last.result = "invalid"

\* C8, reached: the daily key of another date, entered on a date that has no
\* daily key configured
C8_Witness ==
  /\ Called /\ last.result = "invalid"
  /\ last.key \in DailyKeyStrings
  /\ DateKey(last.today) \notin DOMAIN DAILY_KEYS

\* C8, further cases: the empty string; another date's key on a date that
\* has a key of its own
C8_WitnessEmpty == Called /\ last.result = "invalid" /\ last.key = ""

C8_WitnessOtherDate ==
  /\ Called /\ last.result = "invalid"
  /\ last.key \in DailyKeyStrings
  /\ DateKey(last.today) \in DOMAIN DAILY_KEYS

\* C9: a call that returns invalid or duplicate leaves the application data,
\* the license record included, as it was.
C9_RejectionChangesNothing ==
  (Called /\ last.result \in {"invalid", "duplicate"}) => data = last.pre

\* C9, reached: a duplicate on a record that holds a ledger
C9_Witness ==
  /\ Called /\ last.result = "duplicate"
  /\ Pre.isActive /\ Len(Pre.usedKeys) >= 2
  /\ data = last.pre

\* C9, second case
C9_WitnessInvalid ==
  Called /\ last.result = "invalid" /\ ~Pre.isActive /\ data = last.pre

SomeSuccess == \E k \in Keys : successes[k] > 0

\* C10: isActive is true iff some call has returned success, and once true
\* it stays true.
C10_ActiveIffSucceeded ==
  /\ [](data.license.isActive <=> SomeSuccess)
  /\ [][data.license.isActive => data'.license.isActive]_vars

\* C10, reached: the license has expired with the passing of time and is
\* still marked active
C10_Witness ==
  /\ last.op = "tick"
  /\ data.license.isActive /\ SomeSuccess
  /\ ExpOf(data.license) < now

\* C13: right after any successful activation the record is active and its
\* expirationDate is later than now, so an expired license is valid again.
C13_SuccessLeavesLicenseValid ==
  Succeeded => (Post.isActive /\ last.today < ExpOf(Post))

\* C13, reached: the license had expired before the successful call
C13_Witness ==
  /\ Succeeded
  /\ Pre.isActive /\ ExpOf(Pre) < last.today
  /\ Post.isActive /\ last.today < ExpOf(Post)

IsPrefix(s, t) == Len(s) <= Len(t) /\ s = SubSeq(t, 1, Len(s))

\* C14: the ledger is append-only: a success appends exactly the entry
\* (inputKey, current year) at the end, and no step removes, reorders or
\* alters an entry already there.
C14_LedgerAppendOnly ==
  /\ [](Succeeded =>
          Post.usedKeys = Pre.usedKeys \o
            <<[key |-> last.key, year |-> getFullYear(last.today)]>>)
  /\ [][/\ IsPrefix(data.license.usedKeys, data'.license.usedKeys)
        /\ Len(data'.license.usedKeys) <= Len(data.license.usedKeys) + 1]_vars

\* C14, reached: a third entry is appended behind two that stay as they were
C14_Witness ==
  /\ Succeeded
  /\ Len(Pre.usedKeys) = 2
  /\ Len(Post.usedKeys) = 3
  /\ SubSeq(Post.usedKeys, 1, 2) = Pre.usedKeys
  /\ Post.usedKeys[3] = [key |-> last.key, year |-> getFullYear(last.today)]

\* C11: at every instant isLicenseValid equals (isActive AND now <
\* expirationDate), also when the clock has passed expirationDate and the
\* license record has not changed since the status was computed
C11_StatusFollowsClock ==
  isLicenseValid = (data.license.isActive /\ now < ExpOf(data.license))

\* the events after which the body of the memo has run: a successful
\* activation, a restore and a start of the application
Recomputed ==
  \/ Succeeded
  \/ last.op = "restore" /\ last.result = "success"
  \/ last.op = "restart"

\* C12: whenever isLicenseValid is recomputed its value is isActive AND
\* (expirationDate later than now): an inactive record is not valid, and an
\* active record whose expirationDate equals now is not valid
C12_RecomputedValue ==
  Recomputed =>
    /\ isLicenseValid = (data.license.isActive /\ ExpOf(data.license) > last.today)
    /\ ~data.license.isActive => ~isLicenseValid
    /\ ExpOf(data.license) = last.today => ~isLicenseValid

\* an active license is recomputed at the very instant it runs out
C12_Witness ==
  /\ last.op = "restart"
  /\ data.license.isActive
  /\ ExpOf(data.license) = last.today
  /\ ~isLicenseValid

\* an inactive license is recomputed
C12_WitnessInactive ==
  /\ Recomputed
  /\ ~data.license.isActive
  /\ ~isLicenseValid

\* C17: no operation other than activateLicense (the eleven operations on
\* clients, plans, accounts, settings and templates, and the backup restore)
\* changes the license record
C17_OnlyActivationChangesLicense ==
  last.op # "activate" => data.license = last.pre.license

\* C17, the part that holds: the eleven operations other than the restore
\* leave the license record as it was
C17_OperationsKeepLicense ==
  last.op \notin {"activate", "restore"} => data.license = last.pre.license

\* C18: after every change the stored document is the serialisation of the
\* current data, and a start from that document gives the saved license:
\* same isActive, same expirationDate, same usedKeys in the same order
C18_StoredDocumentRoundTrip ==
  /\ storage = JSONstringify(data)
  /\ last.op = "restart" =>
       /\ data.license.isActive = Pre.isActive
       /\ data.license.expirationDate = Pre.expirationDate
       /\ Len(data.license.usedKeys) = Len(Pre.usedKeys)
       /\ \A i \in 1..Len(Pre.usedKeys) : data.license.usedKeys[i] = Pre.usedKeys[i]

\* a start from a document that holds a license with two ledger entries
C18_Witness ==
  /\ last.op = "restart"
  /\ Len(Pre.usedKeys) = 2
  /\ Pre.usedKeys[1].key # Pre.usedKeys[2].key
  /\ data.license = Pre
  /\ storage = JSONstringify(data)

\* the base date computed from the record the render before the calls saw
SnapshotBase ==
  IF view.license.isActive /\ ExpOf(view.license) > last.today
  THEN ExpOf(view.license) ELSE last.today

\* the call was issued while an earlier update was not yet rendered
SecondCall == Succeeded /\ view.license # Pre

\* C15: a call issued before the update of an earlier call is visible
\* computes its base date from the record before that update: the final
\* expirationDate is the snapshot's base plus the call's own extension, and
\* the extension granted by the earlier call is not in it
C15_SecondCallUsesSnapshot ==
  SecondCall =>
    /\ LastIsDaily => ExpOf(Post) = SnapshotBase + 30
    /\ (~LastIsDaily /\ last.key \in ANNUAL_KEYS) => ExpOf(Post) = SnapshotBase + 365
    /\ (~LastIsDaily /\ last.key \notin ANNUAL_KEYS) => ExpOf(Post) = HundredYearsOn

\* a daily key and then an annual key from the same snapshot: the final
\* date is a year from the snapshot's base, the thirty days are lost
C15_Witness ==
  /\ SecondCall
  /\ ~LastIsDaily /\ last.key \in ANNUAL_KEYS
  /\ ExpOf(Pre) = SnapshotBase + 30
  /\ ExpOf(Post) = SnapshotBase + 365
  /\ ExpOf(Post) < ExpOf(Pre) + 365

C16_WitnessStillRefused ==
  /\ Called /\ last.result = "duplicate"
  /\ last.key = "A1"
  /\ "A1" \in KeysOf(Pre.usedKeys)
  /\ getFullYear(last.today) = 2026
  /\ {"A1", "D1", "X"} \subseteq rejected
  /\ "D1" \in KeysOf(Pre.usedKeys)

Generated == pix.payload # <<>>

\* the output without its last four characters
PixBody == SubSeq(pix.payload, 1, Len(pix.payload) - 4)

\* C19: the last four characters of the output are crc16ccitt of all the
\* characters before them, and these end with 6304
C19_TrailerIsCrcOfBody ==
  Generated =>
    /\ Len(pix.payload) > 8
    /\ SubSeq(pix.payload, Len(pix.payload) - 3, Len(pix.payload)) = crc16ccitt(PixBody)
    /\ SubSeq(PixBody, Len(PixBody) - 3, Len(PixBody)) = <<54, 51, 48, 52>>

\* a code over a name with an accent, whose checksum starts with a zero
C19_Witness ==
  /\ Generated
  /\ pix.name = <<74, 111, 115, 233>>
  /\ SubSeq(pix.payload, Len(pix.payload) - 3, Len(pix.payload)) = crc16ccitt(PixBody)
  /\ crc16ccitt(PixBody)[1] = 48

\* tag, two-digit length, value
TLV(tag, value) ==
  <<48 + (tag \div 10), 48 + (tag % 10),
    48 + (Len(value) \div 10), 48 + (Len(value) % 10)>>
    \o value

\* br.gov.bcb.pix
PixGui == <<98, 114, 46, 103, 111, 118, 46, 98, 99, 98, 46, 112, 105, 120>>

\* C20: the output is the fields 00, 26 (sub-fields 00 and 01), 52, 53, 54,
\* 58, 59, 60, 62 (sub-field 05, *** when no transaction id is given), then
\* 6304 and the CRC, in this order and with nothing else
C20_FieldsInOrder ==
  Generated =>
    pix.payload =
      TLV(0, <<48, 49>>)
      \o TLV(26, TLV(0, PixGui) \o TLV(1, pix.key))
      \o TLV(52, <<48, 48, 48, 48>>)
      \o TLV(53, <<57, 56, 54>>)
      \o TLV(54, toFixed2(pix.cents))
      \o TLV(58, <<66, 82>>)
      \o TLV(59, MerchantText(pix.name, 25))
      \o TLV(60, MerchantText(IF pix.city = <<>> THEN <<66, 82, 65, 83, 73, 76>>
                              ELSE pix.city[1], 15))
      \o TLV(62, TLV(5, IF pix.txId = <<>> THEN <<42, 42, 42>> ELSE pix.txId[1]))
      \o <<54, 51, 48, 52>>
      \o SubSeq(pix.payload, Len(pix.payload) - 3, Len(pix.payload))

\* a code generated without a transaction id: field 62 is 6207 0503 ***
C20_Witness ==
  /\ Generated
  /\ pix.txId = <<>>
  /\ Len(pix.key) = 11
  /\ SubSeq(pix.payload, Len(pix.payload) - 18, Len(pix.payload) - 8)
       = <<54, 50, 48, 55, 48, 53, 48, 51, 42, 42, 42>>

\* the number two ASCII digits denote
TwoDigits(s, pos) == (s[pos] - 48) * 10 + (s[pos + 1] - 48)

RECURSIVE FieldFrom(_, _, _)
\* the value of the first field with the tag `tag` among the fields of s
\* that start at pos (<<>> if there is none)
FieldFrom(s, pos, tag) ==
  IF pos + 3 > Len(s) THEN <<>>
  ELSE IF TwoDigits(s, pos) = tag
  THEN SubSeq(s, pos + 4, pos + 3 + TwoDigits(s, pos + 2))
  ELSE FieldFrom(s, pos + 4 + TwoDigits(s, pos + 2), tag)

\* the value of the field `tag` of the generated code
Field(tag) == FieldFrom(pix.payload, 1, tag)

\* upper-cased, decomposed, marks removed
Normalized(s) == stripMarks(normalizeNFD(toUpperCase(s)))

\* the city the code is generated for
PixCity == IF pix.city = <<>> THEN <<66, 82, 65, 83, 73, 76>> ELSE pix.city[1]

\* C21: field 59 is the first 25 characters of the normalised name and field
\* 60 the first 15 of the normalised city: never longer than that, and not
\* shorter when the normalised text has that many characters
C21_CutAfterNormalisation ==
  Generated =>
    /\ Field(59) = substring0(Normalized(pix.name), 25)
    /\ Field(60) = substring0(Normalized(PixCity), 15)
    /\ Len(Field(59)) <= 25
    /\ Len(Normalized(pix.name)) >= 25 => Len(Field(59)) = 25

\* C21, what the code does: the text is cut to 25 (15) code units first and
\* normalised afterwards
C21_CutBeforeNormalisation ==
  Generated =>
    /\ Field(59) = Normalized(substring0(pix.name, 25))
    /\ Field(60) = Normalized(substring0(PixCity, 15))

RECURSIVE WellFormed(_, _)
\* from pos on, s is a sequence of fields: two characters of tag, two ASCII
\* digits of length, and exactly that many characters of value
WellFormed(s, pos) ==
  IF pos = Len(s) + 1 THEN TRUE
  ELSE /\ pos + 3 <= Len(s)
       /\ s[pos + 2] \in 48..57
       /\ s[pos + 3] \in 48..57
       /\ pos + 3 + TwoDigits(s, pos + 2) <= Len(s)
       /\ WellFormed(s, pos + 4 + TwoDigits(s, pos + 2))

RECURSIVE TagsFrom(_, _)
\* the tags of the fields of s from pos on
TagsFrom(s, pos) ==
  IF pos + 3 > Len(s) THEN <<>>
  ELSE <<TwoDigits(s, pos)>> \o TagsFrom(s, pos + 4 + TwoDigits(s, pos + 2))

\* the transaction id the code is generated for
PixTxId == IF pix.txId = <<>> THEN <<42, 42, 42>> ELSE pix.txId[1]

\* C22: every length prefix is two ASCII digits and is the number of
\* characters of the value after it, for the fields and for the sub-fields
\* of 26 (key length + 22 characters) and of 62 (transaction id length + 4),
\* all values being shorter than 100 characters
C22_LengthPrefixes ==
  Generated =>
    /\ WellFormed(pix.payload, 1)
    /\ TagsFrom(pix.payload, 1) = <<0, 26, 52, 53, 54, 58, 59, 60, 62, 63>>
    /\ Field(0) = <<48, 49>>
    /\ Field(52) = <<48, 48, 48, 48>>
    /\ Field(53) = <<57, 56, 54>>
    /\ Field(58) = <<66, 82>>
    /\ Len(Field(63)) = 4
    /\ WellFormed(Field(26), 1)
    /\ TagsFrom(Field(26), 1) = <<0, 1>>
    /\ FieldFrom(Field(26), 1, 0) = PixGui
    /\ FieldFrom(Field(26), 1, 1) = pix.key
    /\ Len(Field(26)) = Len(pix.key) + 22
    /\ WellFormed(Field(62), 1)
    /\ TagsFrom(Field(62), 1) = <<5>>
    /\ FieldFrom(Field(62), 1, 5) = PixTxId
    /\ Len(Field(62)) = Len(PixTxId) + 4

\* a code with one-digit and two-digit lengths: a key of 11 characters in a
\* blob of 33, a transaction id of 4 in a blob of 8, a name of 26
C22_Witness ==
  /\ Generated
  /\ Len(pix.key) = 11 /\ Len(Field(26)) = 33
  /\ pix.txId # <<>> /\ Len(Field(62)) = 8
  /\ Len(Field(59)) = 26
  /\ WellFormed(pix.payload, 1)

\* crc16ccitt has returned
Computed == crcCall.hex # <<>>

\* the 16-bit value the loop of crc16ccitt leaves for the string
CrcValue == CrcLoop([hi |-> 0, lo |-> 65535], crcCall.str, 1, Len(crcCall.str)).lo

\* the upper half of the 32-bit value the loop leaves
CrcOverflow == CrcLoop([hi |-> 0, lo |-> 65535], crcCall.str, 1, Len(crcCall.str)).hi

\* the number a hexadecimal digit denotes (16 for any other character)
HexDigitValue(c) ==
  IF c \in 48..57 THEN c - 48 ELSE IF c \in 65..70 THEN c - 55 ELSE 16

\* C23: crc16ccitt returns the same text for the same string, of exactly
\* four characters in 0-9 or A-F, the empty string included: the 16-bit
\* value in base 16, with zeros on the left when it is below 0x1000
C23_FourHexCharacters ==
  Computed =>
    /\ crcCall.hex = crc16ccitt(crcCall.str)
    /\ Len(crcCall.hex) = 4
    /\ \A i \in 1..4 : HexDigitValue(crcCall.hex[i]) < 16
    /\ HexDigitValue(crcCall.hex[1]) * 4096 + HexDigitValue(crcCall.hex[2]) * 256
         + HexDigitValue(crcCall.hex[3]) * 16 + HexDigitValue(crcCall.hex[4]) = CrcValue
    /\ CrcValue < 4096 => crcCall.hex[1] = 48

\* a string whose value is below 0x1000: the text starts with a zero
C23_Witness ==
  /\ Computed
  /\ CrcValue < 4096
  /\ Len(crcCall.hex) = 4
  /\ crcCall.hex[1] = 48

\* the empty string gives FFFF
C23_WitnessEmpty ==
  /\ Computed
  /\ crcCall.str = <<>>
  /\ crcCall.hex = <<70, 70, 70, 70>>

\* one shift of the reference CRC, masked to 16 bits
RefShift(c) ==
  IF c >= 32768 THEN Xor16((c * 2) % 65536, 4129, 16) ELSE (c * 2) % 65536

RECURSIVE RefShifts(_, _)
\* n shifts, the value of each bound before the next
RefShifts(c, n) ==
  IF n = 0 THEN c
  ELSE CHOOSE r \in {RefShifts(x, n - 1) : x \in {RefShift(c)}} : TRUE

\* one byte of the reference CRC-CCITT: the byte enters the high byte, eight
\* shifts with the polynomial 0x1021, MSB first
RefByte(c, b) == RefShifts(Xor16(c, b * 256, 16), 8)

RECURSIVE RefCrc(_, _)
\* the reference CRC-CCITT of the first n bytes of str: initial value
\* 0xFFFF, no final XOR
RefCrc(str, n) ==
  IF n = 0 THEN 65535
  ELSE CHOOSE r \in {RefByte(c, str[n]) : c \in {RefCrc(str, n - 1)}} : TRUE

\* a hexadecimal digit, upper case
HexDigit(d) == IF d < 10 THEN 48 + d ELSE 55 + d

\* C25: for strings of characters with code below 256 crc16ccitt, which
\* masks to 16 bits once at the end, returns the value of the reference
\* CRC-CCITT, which masks after each byte
C25_EqualsReferenceCrc ==
  (Computed /\ \A i \in 1..Len(crcCall.str) : crcCall.str[i] < 256) =>
    LET ref == RefCrc(crcCall.str, Len(crcCall.str))
    IN  crcCall.hex = << HexDigit(ref \div 4096), HexDigit((ref \div 256) % 16),
                         HexDigit((ref \div 16) % 16), HexDigit(ref % 16) >>

\* a string long enough for the unmasked value to have left the low 16 bits
C25_Witness ==
  /\ Computed
  /\ Len(crcCall.str) >= 3
  /\ CrcOverflow # 0
  /\ CrcValue = RefCrc(crcCall.str, Len(crcCall.str))

RECURSIVE Decimal(_)
\* the decimal digits of a natural number
Decimal(n) == IF n < 10 THEN <<48 + n>> ELSE Decimal(n \div 10) \o <<48 + (n % 10)>>

\* where field 54 starts: after the fields 00, 26, 52 and 53
Start54 == 6 + (4 + Len(Field(26))) + 8 + 7 + 1

\* the field 54 as written: tag, length and value
Written54 == SubSeq(pix.payload, Start54, Start54 + 3 + Len(Field(54)))

\* C24: for an amount of c whole cents field 54 is 54, the two-digit
\* length, then c div 100, a point and c mod 100 in two digits, nothing
\* else: 5 gives 54045.00 and 1234.5 gives 54071234.50
C24_AmountTwoDecimals ==
  Generated =>
    /\ Field(54) = Decimal(pix.cents \div 100) \o <<46>>
                     \o <<48 + ((pix.cents % 100) \div 10), 48 + (pix.cents % 10)>>
    /\ Written54 = <<53, 52, 48 + (Len(Field(54)) \div 10), 48 + (Len(Field(54)) % 10)>>
                     \o Field(54)
    /\ pix.cents = 500 => Written54 = <<53, 52, 48, 52, 53, 46, 48, 48>>
    /\ pix.cents = 123450 =>
         Written54 = <<53, 52, 48, 55, 49, 50, 51, 52, 46, 53, 48>>

\* the amount 1234.5
C24_Witness ==
  /\ Generated
  /\ pix.cents = 123450
  /\ Written54 = <<53, 52, 48, 55, 49, 50, 51, 52, 46, 53, 48>>

\* the amount 0.05
C24_WitnessCents ==
  /\ Generated
  /\ pix.cents = 5
  /\ Written54 = <<53, 52, 48, 52, 48, 46, 48, 53>>

\* no two entries of the ledger have the same key and the same year
NoDuplicateEntries(usedKeys) ==
  \A i, j \in 1..Len(usedKeys) : i # j => usedKeys[i] # usedKeys[j]

\* C26: also when calls with the same key are issued before the render, at
\* most one of them returns Success (a call succeeds only if the committed
\* ledger has no entry of this key for this year), and the ledger never
\* holds two entries with the same key and the same year
C26_NoDoubleSuccess ==
  /\ Succeeded => ~InLedger(Pre.usedKeys, last.key, getFullYear(last.today))
  /\ NoDuplicateEntries(data.license.usedKeys)

\* C26, the part that holds in unnamed/part_000, where the new ledger is
\* built from the snapshot: the ledger has no two equal entries
C26_PartLedgerHasNoDuplicates ==
  impl = "part_000" => NoDuplicateEntries(data.license.usedKeys)

RECURSIVE SumOver(_, _)
\* the sum of f over the keys in S
SumOver(f, S) ==
  IF S = {} THEN 0
  ELSE LET k == CHOOSE x \in S : TRUE IN f[k] + SumOver(f, S \ {k})

\* the Success outcomes returned since the initial record
SuccessCount == SumOver(successes, Keys)

\* C27: in App.tsx the ledger has as many entries as Success outcomes were
\* returned, whatever the interleaving of calls and renders
C27_LedgerCountsSuccesses ==
  impl = "App.tsx" => Len(data.license.usedKeys) = SuccessCount

\* two calls with the same key succeed before the render and the ledger has
\* an entry for each
C27_Witness ==
  /\ impl = "App.tsx"
  /\ Succeeded
  /\ view.license # Pre
  /\ successes[last.key] = 2
  /\ Len(view.license.usedKeys) = 0
  /\ Len(data.license.usedKeys) = 2
  /\ SuccessCount = 2

\* what App.tsx's activateLicense does with the record, the key and the
\* instant of the last call
AppOnLast == activateLicenseApp(last.pre, last.pre, last.key, last.today)

\* the time between the two clock readings of the last call
ReadGap == now - last.today

\* C28: serialized, the two versions of activateLicense return the same
\* outcome and leave the same isActive, expirationDate and usedKeys
\* (as stated: violated when the clock moves between the two readings of
\* unnamed/part_000)
C28_SameOutcomeAndRecord ==
  Called => /\ last.result = AppOnLast.result
            /\ Post = AppOnLast.data.license

\* C28, as the code has it: serialized and from the same record, the two
\* versions return the same outcome and leave the same isActive and usedKeys;
\* the expirationDate of unnamed/part_000 is that of App.tsx or later, by no
\* more than the time between its two clock readings, and the same when the
\* two readings give the same instant
C28_SameUpToSecondClockReading ==
  Called => /\ last.result = AppOnLast.result
            /\ Post.isActive = AppOnLast.data.license.isActive
            /\ Post.usedKeys = AppOnLast.data.license.usedKeys
            /\ ExpOf(Post) - ExpOf(AppOnLast.data.license) \in 0..ReadGap
            /\ ReadGap = 0 => Post = AppOnLast.data.license

\* C28, reached: unnamed/part_000 accepted a key on a record holding an
\* earlier key, both clock readings the same, and left what App.tsx leaves
C28_Witness ==
  /\ impl = "part_000" /\ Succeeded /\ ReadGap = 0
  /\ Len(Pre.usedKeys) >= 1
  /\ Post = AppOnLast.data.license
  /\ Len(Post.usedKeys) = Len(Pre.usedKeys) + 1

\* C28, reached: the clock moved between the two readings and the
\* expirationDate of unnamed/part_000 is later than that of App.tsx
C28_WitnessLater ==
  /\ impl = "part_000" /\ Succeeded /\ ReadGap = 1
  /\ ExpOf(Post) = ExpOf(AppOnLast.data.license) + 1

\* C29: in unnamed/part_000, while the license is not valid, a client list
\* that had at most 5 entries never grows beyond 5 (as stated: violated by
\* "Salvar e Novo", which leaves the form of a new client open)
C29_AtMostFiveClients ==
  (ui.page = "clients" /\ ~isLicenseValid) => Len(data.clients) <= FreeLimit

\* C29, the part that holds: without a valid license handleAddNew leaves the
\* form closed once 5 clients are stored
C29_AddNewRefusedAtLimit ==
  (ui.page = "clients" /\ ~isLicenseValid /\ last.op = "handleAddNew"
     /\ Len(data.clients) >= FreeLimit) => ~ui.showForm

\* C29, reached: handleAddNew was refused with 5 clients stored
C29_Witness ==
  /\ ui.page = "clients" /\ ~isLicenseValid /\ last.op = "handleAddNew"
  /\ Len(data.clients) = FreeLimit /\ ~ui.showForm

\* the client an event of the expirations page was given, and what is stored
\* for it afterwards
ClientBefore == last.pre.clients[1]

ClientAfter == data.clients[1]

\* C30: in App.tsx a client's amountOwed, >= 0 at the start, is >= 0 after any
\* sequence of total payments, partial payments of a positive amount and
\* renewals of 30, 60 or 90 days (as stated: violated by a partial payment
\* larger than the debt)
C30_AmountOwedNeverNegative ==
  ui.page = "expirations" => \A i \in 1..Len(data.clients) : data.clients[i].amountOwed >= 0

\* C30, the part that holds: a total payment always leaves paymentStatus
\* 'paid' with amountOwed 0, and a renewal of a client whose amountOwed is
\* >= 0 leaves it >= 0
C30_TotalPaymentSettles ==
  /\ (ui.page = "expirations" /\ last.op = "payTotal") =>
       ClientAfter.paymentStatus = "paid" /\ ClientAfter.amountOwed = 0
  /\ (ui.page = "expirations" /\ last.op = "handleRenew"
        /\ ClientBefore.amountOwed >= 0) => ClientAfter.amountOwed >= 0

\* C30, reached: a total payment of a pending debt
C30_Witness ==
  /\ ui.page = "expirations" /\ last.op = "payTotal"
  /\ ClientBefore.paymentStatus = "pending" /\ ClientBefore.amountOwed > 0
  /\ ClientAfter.paymentStatus = "paid" /\ ClientAfter.amountOwed = 0

\* C30, reached: a partial payment larger than the debt left it negative
C30_WitnessOverpaid ==
  /\ ui.page = "expirations" /\ last.op = "payPartial"
  /\ ClientBefore.amountOwed >= 0
  /\ ClientAfter.amountOwed < 0

====
